---------------------------- MODULE Spec2Model ----------------------------
(***************************************************************************)
(* Model of src/src/index.ts: the immutable, non-negative Duration value   *)
(* type (nanoseconds stored in a JavaScript number) with its validator     *)
(* toPositive, unit constructors, saturating arithmetic, comparisons,      *)
(* clamp and toString.                                                     *)
(*                                                                         *)
(* A JavaScript number is modelled as a record [k, neg, c, e]:             *)
(*   k = "nan"                    NaN                                      *)
(*   k = "inf"                    +Infinity / -Infinity (neg)              *)
(*   k = "fin"                    (-1)^neg * c * 10^e, c without trailing  *)
(*                                zeros; c = 0 is +0 / -0                  *)
(* Arithmetic is computed exactly on this representation and overflows to  *)
(* +/-Infinity above Number.MAX_VALUE (1.7976931348623157e308), as IEEE    *)
(* double arithmetic does.  Operations whose result would need more than   *)
(* nine significant decimal digits are outside the modelled value set; the *)
(* Can* predicates say when a result is inside it, and the actions are     *)
(* guarded by them.                                                        *)
(***************************************************************************)
EXTENDS Integers, Sequences, FiniteSets

(***************************************************************************)
(* Bounds                                                                  *)
(***************************************************************************)
MaxOps == 2

(***************************************************************************)
(* JavaScript numbers                                                      *)
(***************************************************************************)
RECURSIVE Pow10(_)
Pow10(n) == IF n <= 0 THEN 1 ELSE 10 * Pow10(n - 1)

RECURSIVE Digits(_)
Digits(c) == IF c < 10 THEN 1 ELSE 1 + Digits(c \div 10)

NaN == [k |-> "nan", neg |-> FALSE, c |-> 0, e |-> 0]

Inf(neg) == [k |-> "inf", neg |-> neg, c |-> 0, e |-> 0]

Infinity == Inf(FALSE)

NegInfinity == Inf(TRUE)

\* c * 10^e lies above Number.MAX_VALUE and rounds to Infinity
Overflows(c, e) ==
    LET d == Digits(c)
    IN  \/ d + e > 309
        \/ d + e = 309 /\ c * Pow10(9 - d) >= 179769314

RECURSIVE Strip(_, _)
Strip(c, e) == IF c # 0 /\ c % 10 = 0 THEN Strip(c \div 10, e + 1) ELSE <<c, e>>

\* the number (-1)^neg * c * 10^e, 0 <= c < 10^9
Fin(neg, c, e) ==
    IF c = 0 THEN [k |-> "fin", neg |-> neg, c |-> 0, e |-> 0]
    ELSE LET s == Strip(c, e)
         IN  IF Overflows(s[1], s[2]) THEN Inf(neg)
             ELSE [k |-> "fin", neg |-> neg, c |-> s[1], e |-> s[2]]

\* a non-negative integer literal
Lit(n) == Fin(FALSE, n, 0)

Zero == Lit(0)

NegZero == Fin(TRUE, 0, 0)

IsNaN(x) == x.k = "nan"

IsZero(x) == x.k = "fin" /\ x.c = 0

\* Number.isFinite
IsFinite(x) == x.k = "fin"

Neg(x) == IF IsNaN(x) THEN x ELSE [x EXCEPT !.neg = ~x.neg]

\* decimal position of the leading digit of a non-zero finite number
Mag(x) == Digits(x.c) + x.e

\* |x| < |y| for finite x, y
AbsLt(x, y) ==
    IF x.c = 0 THEN y.c # 0
    ELSE IF y.c = 0 THEN FALSE
    ELSE IF Mag(x) # Mag(y) THEN Mag(x) < Mag(y)
    ELSE x.c * Pow10(9 - Digits(x.c)) < y.c * Pow10(9 - Digits(y.c))

\* the IEEE comparison of x and y: exactly one of four relations holds
Compare(x, y) ==
    IF IsNaN(x) \/ IsNaN(y) THEN "unordered"
    ELSE IF (IsZero(x) /\ IsZero(y)) \/ x = y THEN "equal"
    ELSE LET less ==
                 IF x.k = "inf" THEN x.neg
                 ELSE IF y.k = "inf" THEN ~y.neg
                 ELSE IF IsZero(x) THEN ~y.neg
                 ELSE IF IsZero(y) THEN x.neg
                 ELSE IF x.neg # y.neg THEN x.neg
                 ELSE IF x.neg THEN AbsLt(y, x) ELSE AbsLt(x, y)
         IN  IF less THEN "less" ELSE "greater"

\* x === y
NumEq(x, y) == Compare(x, y) = "equal"

\* x < y
NumLt(x, y) == Compare(x, y) = "less"

\* x <= y
NumLe(x, y) == Compare(x, y) \in {"less", "equal"}

\* x > y
NumGt(x, y) == Compare(x, y) = "greater"

\* x >= y
NumGe(x, y) == Compare(x, y) \in {"greater", "equal"}

(***************************************************************************)
(* x * y                                                                   *)
(***************************************************************************)
CanMul(x, y) ==
    (IsFinite(x) /\ IsFinite(y)) => Digits(x.c) + Digits(y.c) <= 9

NumMul(x, y) ==
    IF IsNaN(x) \/ IsNaN(y) THEN NaN
    ELSE IF x.k = "inf" \/ y.k = "inf"
         THEN IF IsZero(x) \/ IsZero(y) THEN NaN ELSE Inf(x.neg # y.neg)
    ELSE Fin(x.neg # y.neg, x.c * y.c, x.e + y.e)

(***************************************************************************)
(* x + y and x - y                                                         *)
(***************************************************************************)
\* y is below half an ulp of x: x + y rounds to x
Absorbs(x, y) == x.c # 0 /\ y.c # 0 /\ Mag(x) - Mag(y) > 17

MinExp(x, y) == IF x.e < y.e THEN x.e ELSE y.e

Aligned(x, y) ==
    /\ Digits(x.c) + (x.e - MinExp(x, y)) <= 8
    /\ Digits(y.c) + (y.e - MinExp(x, y)) <= 8

CanAdd(x, y) ==
    (IsFinite(x) /\ IsFinite(y)) =>
        \/ x.c = 0 \/ y.c = 0
        \/ Absorbs(x, y) \/ Absorbs(y, x)
        \/ Aligned(x, y)

NumAdd(x, y) ==
    IF IsNaN(x) \/ IsNaN(y) THEN NaN
    ELSE IF x.k = "inf"
         THEN IF y.k = "inf" /\ y.neg # x.neg THEN NaN ELSE x
    ELSE IF y.k = "inf" THEN y
    ELSE IF x.c = 0 /\ y.c = 0 THEN Fin(x.neg /\ y.neg, 0, 0)
    ELSE IF x.c = 0 THEN y
    ELSE IF y.c = 0 THEN x
    ELSE IF Absorbs(x, y) THEN x
    ELSE IF Absorbs(y, x) THEN y
    ELSE LET m  == MinExp(x, y)
             a  == x.c * Pow10(x.e - m)
             b  == y.c * Pow10(y.e - m)
             sa == IF x.neg THEN 0 - a ELSE a
             sb == IF y.neg THEN 0 - b ELSE b
             s  == sa + sb
         IN  IF s < 0 THEN Fin(TRUE, 0 - s, m) ELSE Fin(FALSE, s, m)

CanSub(x, y) == CanAdd(x, Neg(y))

NumSub(x, y) == NumAdd(x, Neg(y))

(***************************************************************************)
(* x / y                                                                   *)
(***************************************************************************)
\* least k in 0..(9 - Digits(c)) with d dividing c * 10^k, or -1
RECURSIVE Shift(_, _, _)
Shift(c, d, k) ==
    IF Digits(c) + k > 9 THEN -1
    ELSE IF (c * Pow10(k)) % d = 0 THEN k
    ELSE Shift(c, d, k + 1)

CanDiv(x, y) ==
    (IsFinite(x) /\ IsFinite(y) /\ x.c # 0 /\ y.c # 0) => Shift(x.c, y.c, 0) >= 0

NumDiv(x, y) ==
    IF IsNaN(x) \/ IsNaN(y) THEN NaN
    ELSE IF x.k = "inf"
         THEN IF y.k = "inf" THEN NaN ELSE Inf(x.neg # y.neg)
    ELSE IF y.k = "inf" THEN Fin(x.neg # y.neg, 0, 0)
    ELSE IF y.c = 0
         THEN IF x.c = 0 THEN NaN ELSE Inf(x.neg # y.neg)
    ELSE IF x.c = 0 THEN Fin(x.neg # y.neg, 0, 0)
    ELSE LET k == Shift(x.c, y.c, 0)
         IN  Fin(x.neg # y.neg, (x.c * Pow10(k)) \div y.c, x.e - y.e - k)

(***************************************************************************)
(* x % y  (the remainder has the sign of the dividend and is exact)        *)
(***************************************************************************)
RECURSIVE PowMod(_, _)
\* 10^n modulo d
PowMod(n, d) == IF n <= 0 THEN 1 % d ELSE (10 * PowMod(n - 1, d)) % d

CanMod(x, y) ==
    (IsFinite(x) /\ IsFinite(y) /\ y.c # 0 /\ ~AbsLt(x, y)) =>
        IF x.e >= y.e THEN Digits(y.c) <= 4
        ELSE Digits(y.c) + (y.e - x.e) <= 9

NumMod(x, y) ==
    IF IsNaN(x) \/ IsNaN(y) \/ x.k = "inf" THEN NaN
    ELSE IF y.k = "inf" THEN x
    ELSE IF y.c = 0 THEN NaN
    ELSE IF AbsLt(x, y) THEN x
    ELSE IF x.e >= y.e
         THEN Fin(x.neg, ((x.c % y.c) * PowMod(x.e - y.e, y.c)) % y.c, y.e)
    ELSE Fin(x.neg, x.c % (y.c * Pow10(y.e - x.e)), x.e)

\* Number.isInteger
IsInteger(x) == IsFinite(x) /\ x.e >= 0

\* Math.max
MathMax(x, y) ==
    IF IsNaN(x) \/ IsNaN(y) THEN NaN
    ELSE IF NumLt(x, y) THEN y
    ELSE IF NumLt(y, x) THEN x
    ELSE IF IsZero(x) /\ x.neg THEN y ELSE x

\* Math.min
MathMin(x, y) ==
    IF IsNaN(x) \/ IsNaN(y) THEN NaN
    ELSE IF NumLt(x, y) THEN x
    ELSE IF NumLt(y, x) THEN y
    ELSE IF IsZero(x) /\ x.neg THEN x ELSE y

\* Number(x.toFixed(6)): x rounded to six decimal places, halves away from 0
ToFixed6(x) ==
    IF ~IsFinite(x) \/ x.e >= -6 THEN x
    ELSE LET sh == (0 - 6) - x.e
         IN  IF sh > 9 THEN Fin(x.neg, 0, 0)
             ELSE LET q == x.c \div Pow10(sh)
                      r == x.c % Pow10(sh)
                  IN  Fin(x.neg, IF 2 * r >= Pow10(sh) THEN q + 1 ELSE q, 0 - 6)

(***************************************************************************)
(* Number to string, as a template literal `${x}` converts it              *)
(***************************************************************************)
Ch(d) ==
    CASE d = 0 -> "0" [] d = 1 -> "1" [] d = 2 -> "2" [] d = 3 -> "3"
      [] d = 4 -> "4" [] d = 5 -> "5" [] d = 6 -> "6" [] d = 7 -> "7"
      [] d = 8 -> "8" [] d = 9 -> "9"

RECURSIVE DigitStr(_)
DigitStr(c) == IF c < 10 THEN Ch(c) ELSE DigitStr(c \div 10) \o Ch(c % 10)

RECURSIVE Zeros(_)
Zeros(n) == IF n <= 0 THEN "" ELSE "0" \o Zeros(n - 1)

\* the w low digits of c, with leading zeros
Low(c, w) == Zeros(w - Digits(c % Pow10(w))) \o DigitStr(c % Pow10(w))

NumberToString(x) ==
    IF IsNaN(x) THEN "NaN"
    ELSE IF x.k = "inf" THEN (IF x.neg THEN "-Infinity" ELSE "Infinity")
    ELSE IF x.c = 0 THEN "0"
    ELSE LET k    == Digits(x.c)
             n    == k + x.e
             sign == IF x.neg THEN "-" ELSE ""
             body ==
                 IF k <= n /\ n <= 21 THEN DigitStr(x.c) \o Zeros(n - k)
                 ELSE IF 0 < n /\ n <= 21
                      THEN DigitStr(x.c \div Pow10(k - n)) \o "." \o Low(x.c, k - n)
                 ELSE IF (0 - 6) < n /\ n <= 0
                      THEN "0." \o Zeros(0 - n) \o DigitStr(x.c)
                 ELSE LET ex == IF n - 1 < 0
                                THEN "e-" \o DigitStr(1 - n)
                                ELSE "e+" \o DigitStr(n - 1)
                      IN  IF k = 1 THEN DigitStr(x.c) \o ex
                          ELSE DigitStr(x.c \div Pow10(k - 1)) \o "."
                                   \o Low(x.c, k - 1) \o ex
         IN  sign \o body

(***************************************************************************)
(* Outcome of a call: a returned value or a thrown RangeError              *)
(***************************************************************************)
NoError == "none"

Return(v) == [err |-> NoError, val |-> v]

Throw(msg) == [err |-> msg, val |-> NaN]

(***************************************************************************)
(* toPositive and the Duration class; a Duration is its nanoseconds field  *)
(***************************************************************************)
\* the RangeError messages
InvalidDuration == "Value must be finite"

DivisionByZero == "Division by zero"

InvalidRange == "min must be <= max"

\* variant: negative values are not saturated
toPositive_NoSaturate(num) ==
    IF ~IsFinite(num) THEN Throw(InvalidDuration) ELSE Return(num)

\* variant: only NaN is rejected, Infinity passes
toPositive_NaNOnly(num) ==
    IF IsNaN(num) THEN Throw(InvalidDuration)
    ELSE Return(IF NumLe(num, Zero) THEN Zero ELSE num)

toPositive(num) ==
    IF ~IsFinite(num) THEN Throw(InvalidDuration)
    ELSE Return(IF NumLe(num, Zero) THEN Zero ELSE num)

NS_PER_MICRO == Fin(FALSE, 1, 3)

NS_PER_MILLI == Fin(FALSE, 1, 6)

NS_PER_SECOND == Fin(FALSE, 1, 9)

NS_PER_MINUTE == NumMul(Lit(60), NS_PER_SECOND)

NS_PER_HOUR == NumMul(Lit(60), NS_PER_MINUTE)

ZERO == toPositive(Lit(0)).val

fromNanos(nanos) == toPositive(nanos)

fromMicros(micros) == toPositive(NumMul(micros, NS_PER_MICRO))

fromMillis(millis) == toPositive(NumMul(millis, NS_PER_MILLI))

fromSecs(secs) == toPositive(NumMul(secs, NS_PER_SECOND))

\* variant: minutes scaled as seconds
fromMinutes_SecondScale(minutes) == toPositive(NumMul(minutes, NS_PER_SECOND))

fromMinutes(minutes) == toPositive(NumMul(minutes, NS_PER_MINUTE))

fromHours(hours) == toPositive(NumMul(hours, NS_PER_HOUR))

asNanos(this) == this

asMicros(this) == NumDiv(this, NS_PER_MICRO)

asMillis(this) == NumDiv(this, NS_PER_MILLI)

asSecs(this) == NumDiv(this, NS_PER_SECOND)

asMinutes(this) == NumDiv(this, NS_PER_MINUTE)

asHours(this) == NumDiv(this, NS_PER_HOUR)

add(this, other) == toPositive(NumAdd(this, other))

\* variant: operands swapped
sub_Swapped(this, other) == toPositive(NumSub(other, this))

sub(this, other) == toPositive(NumSub(this, other))

\* variant: a negative product is rejected instead of saturated
mul_NegativeThrows(this, factor) ==
    IF NumLt(NumMul(this, factor), Zero) THEN Throw(InvalidDuration)
    ELSE toPositive(NumMul(this, factor))

mul(this, factor) == toPositive(NumMul(this, factor))

\* variant: no divide-by-zero check
div_NoZeroCheck(this, divisor) == toPositive(NumDiv(this, divisor))

div(this, divisor) ==
    IF NumEq(divisor, Zero) THEN Throw(DivisionByZero)
    ELSE toPositive(NumDiv(this, divisor))

eq(this, other) == NumEq(this, other)

\* variant: <= instead of <
lt_Inclusive(this, other) == NumLe(this, other)

lt(this, other) == NumLt(this, other)

le(this, other) == NumLe(this, other)

gt(this, other) == NumGt(this, other)

ge(this, other) == NumGe(this, other)

isZero(this) == NumEq(this, Zero)

\* variant: the upper bound is not applied
clamp_NoUpper(this, min, max) ==
    IF gt(min, max) THEN Throw(InvalidRange)
    ELSE toPositive(MathMax(this, min))

clamp(this, min, max) ==
    IF gt(min, max) THEN Throw(InvalidRange)
    ELSE toPositive(MathMin(MathMax(this, min), max))

round(n) == IF IsInteger(n) THEN n ELSE ToFixed6(n)

\* variant: minutes are tried before hours
toString_MinuteFirst(this) ==
    IF NumEq(NumMod(this, NS_PER_MINUTE), Zero)
        THEN NumberToString(round(asMinutes(this))) \o "m"
    ELSE IF NumEq(NumMod(this, NS_PER_SECOND), Zero)
        THEN NumberToString(round(asSecs(this))) \o "s"
    ELSE IF NumEq(NumMod(this, NS_PER_MILLI), Zero)
        THEN NumberToString(round(asMillis(this))) \o "ms"
    ELSE IF NumEq(NumMod(this, NS_PER_MICRO), Zero)
        THEN NumberToString(round(asMicros(this))) \o "µs"
    ELSE NumberToString(this) \o "ns"

\* variant: the millisecond unit is skipped
toString_NoMilli(this) ==
    IF NumEq(NumMod(this, NS_PER_HOUR), Zero)
        THEN NumberToString(round(asHours(this))) \o "h"
    ELSE IF NumEq(NumMod(this, NS_PER_MINUTE), Zero)
        THEN NumberToString(round(asMinutes(this))) \o "m"
    ELSE IF NumEq(NumMod(this, NS_PER_SECOND), Zero)
        THEN NumberToString(round(asSecs(this))) \o "s"
    ELSE IF NumEq(NumMod(this, NS_PER_MICRO), Zero)
        THEN NumberToString(round(asMicros(this))) \o "µs"
    ELSE NumberToString(this) \o "ns"

toString(this) ==
    IF NumEq(NumMod(this, NS_PER_HOUR), Zero)
        THEN NumberToString(round(asHours(this))) \o "h"
    ELSE IF NumEq(NumMod(this, NS_PER_MINUTE), Zero)
        THEN NumberToString(round(asMinutes(this))) \o "m"
    ELSE IF NumEq(NumMod(this, NS_PER_SECOND), Zero)
        THEN NumberToString(round(asSecs(this))) \o "s"
    ELSE IF NumEq(NumMod(this, NS_PER_MILLI), Zero)
        THEN NumberToString(round(asMillis(this))) \o "ms"
    ELSE IF NumEq(NumMod(this, NS_PER_MICRO), Zero)
        THEN NumberToString(round(asMicros(this))) \o "µs"
    ELSE NumberToString(this) \o "ns"

\* the range in which the decimal representation is exactly the double
ExactDouble(x) == IsFinite(x) /\ (x.c = 0 \/ (Mag(x) <= 15 /\ x.e >= 0 - 9))

CanToString(this) ==
    /\ ExactDouble(this)
    /\ \A u \in {NS_PER_HOUR, NS_PER_MINUTE, NS_PER_SECOND,
                  NS_PER_MILLI, NS_PER_MICRO} :
           CanMod(this, u) /\ (IsZero(NumMod(this, u)) => CanDiv(this, u))

(***************************************************************************)
(* The caller: two variables holding live Durations, the arguments it      *)
(* passes, and the outcome of its last call                                *)
(***************************************************************************)
VARIABLES regs, nops, last

vars == <<regs, nops, last>>

Regs == {"a", "b"}

\* numbers passed to the unit constructors
Inputs ==
    { NaN, Infinity, NegInfinity, NegZero, Zero, Fin(TRUE, 5, 0), Lit(1),
      Lit(1500), Lit(3600), Fin(FALSE, 1, 308) }

\* numbers passed to mul and div
Factors ==
    { NaN, Infinity, NegInfinity, NegZero, Zero, Fin(TRUE, 5, 0),
      Fin(TRUE, 5, 0 - 1), Fin(FALSE, 5, 0 - 1), Lit(2) }

\* Durations the caller can name: its variables and Duration.ZERO
Operands == {ZERO} \cup {regs[r] : r \in Regs}

Call(op, this, other, max, arg, out, bool, str) ==
    [op |-> op, this |-> this, other |-> other, max |-> max, arg |-> arg,
     err |-> out.err, val |-> out.val, bool |-> bool, str |-> str]

\* no call outstanding
Idle == Call("idle", NaN, NaN, NaN, NaN, Return(NaN), FALSE, "")

\* the calls that return a Duration
Constructing ==
    { "fromNanos", "fromMicros", "fromMillis", "fromSecs", "fromMinutes",
      "fromHours", "add", "sub", "mul", "div", "clamp" }

\* a call that returns a Duration or throws
Construct(op, this, other, max, arg, out) ==
    /\ last = Idle
    /\ last' = Call(op, this, other, max, arg, out, FALSE, "")
    /\ UNCHANGED <<regs, nops>>

\* a call that returns a boolean, a number or a string
Observe(op, this, other, out, bool, str) ==
    /\ last = Idle
    /\ last' = Call(op, this, other, NaN, NaN, out, bool, str)
    /\ UNCHANGED <<regs, nops>>

Init ==
    /\ regs = [r \in Regs |-> ZERO]
    /\ nops = 0
    /\ last = Idle

\* the caller assigns the returned Duration to one of its variables
Keep ==
    /\ last.op \in Constructing
    /\ last.err = NoError
    /\ nops < MaxOps
    /\ \E r \in Regs : regs' = [regs EXCEPT ![r] = last.val]
    /\ nops' = nops + 1
    /\ last' = Idle

\* the caller drops the outcome (or has caught the error) and goes on
Discard ==
    /\ last # Idle
    /\ last' = Idle
    /\ UNCHANGED <<regs, nops>>

FromNanos ==
    \E x \in Inputs : Construct("fromNanos", NaN, NaN, NaN, x, fromNanos(x))

FromMicros ==
    \E x \in Inputs :
        /\ CanMul(x, NS_PER_MICRO)
        /\ Construct("fromMicros", NaN, NaN, NaN, x, fromMicros(x))

FromMillis ==
    \E x \in Inputs :
        /\ CanMul(x, NS_PER_MILLI)
        /\ Construct("fromMillis", NaN, NaN, NaN, x, fromMillis(x))

FromSecs ==
    \E x \in Inputs :
        /\ CanMul(x, NS_PER_SECOND)
        /\ Construct("fromSecs", NaN, NaN, NaN, x, fromSecs(x))

FromMinutes ==
    \E x \in Inputs :
        /\ CanMul(x, NS_PER_MINUTE)
        /\ Construct("fromMinutes", NaN, NaN, NaN, x, fromMinutes(x))

FromHours ==
    \E x \in Inputs :
        /\ CanMul(x, NS_PER_HOUR)
        /\ Construct("fromHours", NaN, NaN, NaN, x, fromHours(x))

Add ==
    \E this \in Operands, other \in Operands :
        /\ CanAdd(this, other)
        /\ Construct("add", this, other, NaN, NaN, add(this, other))

Sub ==
    \E this \in Operands, other \in Operands :
        /\ CanSub(this, other)
        /\ Construct("sub", this, other, NaN, NaN, sub(this, other))

Mul ==
    \E this \in Operands, factor \in Factors :
        /\ CanMul(this, factor)
        /\ Construct("mul", this, NaN, NaN, factor, mul(this, factor))

Div ==
    \E this \in Operands, divisor \in Factors :
        /\ CanDiv(this, divisor)
        /\ Construct("div", this, NaN, NaN, divisor, div(this, divisor))

Clamp ==
    \E this \in Operands, min \in Operands, max \in Operands :
        Construct("clamp", this, min, max, NaN, clamp(this, min, max))

Eq ==
    \E this \in Operands, other \in Operands :
        Observe("eq", this, other, Return(NaN), eq(this, other), "")

Lt ==
    \E this \in Operands, other \in Operands :
        Observe("lt", this, other, Return(NaN), lt(this, other), "")

Le ==
    \E this \in Operands, other \in Operands :
        Observe("le", this, other, Return(NaN), le(this, other), "")

Gt ==
    \E this \in Operands, other \in Operands :
        Observe("gt", this, other, Return(NaN), gt(this, other), "")

Ge ==
    \E this \in Operands, other \in Operands :
        Observe("ge", this, other, Return(NaN), ge(this, other), "")

IsZeroCall ==
    \E this \in Operands :
        Observe("isZero", this, NaN, Return(NaN), isZero(this), "")

AsNanos ==
    \E this \in Operands :
        Observe("asNanos", this, NaN, Return(asNanos(this)), FALSE, "")

ToStringCall ==
    \E this \in Operands :
        /\ CanToString(this)
        /\ Observe("toString", this, NaN, Return(NaN), FALSE, toString(this))

Next ==
    \/ FromNanos \/ FromMicros \/ FromMillis
    \/ FromSecs \/ FromMinutes \/ FromHours
    \/ Add \/ Sub \/ Mul \/ Div \/ Clamp
    \/ Eq \/ Lt \/ Le \/ Gt \/ Ge
    \/ IsZeroCall \/ AsNanos \/ ToStringCall
    \/ Keep \/ Discard

Spec == Init /\ [][Next]_vars

(***************************************************************************)
(* Properties                                                              *)
(***************************************************************************)
\* a Duration satisfying the type's invariant: finite and >= 0
ValidDuration(d) == IsFinite(d) /\ NumGe(d, Zero)

Returned == last.err = NoError

UnitConstructors ==
    { "fromNanos", "fromMicros", "fromMillis", "fromSecs", "fromMinutes",
      "fromHours" }

\* the scale factor the contract gives for each unit constructor
ScaleOf(op) ==
    CASE op = "fromNanos"   -> Lit(1)
      [] op = "fromMicros"  -> Fin(FALSE, 1, 3)
      [] op = "fromMillis"  -> Fin(FALSE, 1, 6)
      [] op = "fromSecs"    -> Fin(FALSE, 1, 9)
      [] op = "fromMinutes" -> Fin(FALSE, 6, 10)
      [] op = "fromHours"   -> Fin(FALSE, 36, 11)

\* C1: every Duration that a constructing operation returned, and every
\* Duration the caller holds after any sequence of such operations, has a
\* finite nanosecond count >= 0; a call that threw returned no Duration.
C1_FiniteNonNegative ==
    /\ \A r \in Regs : ValidDuration(regs[r])
    /\ last.op \in Constructing =>
          IF Returned THEN ValidDuration(last.val) ELSE IsNaN(last.val)

\* C1 witness: a subtraction whose raw difference is negative has returned,
\* with a non-zero Duration held from earlier operations.
C1_Witness ==
    /\ last.op = "sub" /\ Returned
    /\ NumLt(last.this, last.other)
    /\ \E r \in Regs : ~IsZero(regs[r])

\* C2: a unit constructor throws InvalidDuration when x * scale is not
\* finite, returns the zero Duration when x * scale is finite and negative,
\* and otherwise stores exactly x * scale.
C2_ConstructorContract ==
    last.op \in UnitConstructors =>
        LET scaled == NumMul(last.arg, ScaleOf(last.op))
        IN  IF ~IsFinite(scaled)
              THEN last.err = InvalidDuration /\ IsNaN(last.val)
            ELSE IF NumLt(scaled, Zero)
              THEN Returned /\ last.val = Zero
            ELSE Returned /\ NumEq(last.val, scaled)

\* C2 witness: a finite input whose scaled value overflows to Infinity was
\* rejected by a constructor.
C2_Witness ==
    /\ last.op = "fromMinutes"
    /\ IsFinite(last.arg)
    /\ ~IsFinite(NumMul(last.arg, ScaleOf(last.op)))
    /\ last.err = InvalidDuration

\* C3: a.sub(b) never throws; its count is a - b when a >= b and exactly 0
\* when a < b, so a.sub(b).isZero() whenever a.le(b).
C3_SaturatingSub ==
    last.op = "sub" =>
        /\ Returned
        /\ NumGe(last.this, last.other) =>
              NumEq(last.val, NumSub(last.this, last.other))
        /\ NumLt(last.this, last.other) => last.val = Zero
        /\ le(last.this, last.other) => isZero(last.val)

\* C3 witness: a non-zero Duration minus a larger one has returned.
C3_Witness ==
    /\ last.op = "sub" /\ Returned
    /\ ~IsZero(last.this)
    /\ NumLt(last.this, last.other)

\* C4 (as stated): d.div(0) throws the divide-by-zero error, and for every
\* finite divisor k < 0, d.div(k) does not throw and returns a zero Duration.
C4_Original ==
    last.op = "div" =>
        /\ NumEq(last.arg, Zero) =>
              last.err = DivisionByZero /\ IsNaN(last.val)
        /\ (IsFinite(last.arg) /\ NumLt(last.arg, Zero)) =>
              Returned /\ isZero(last.val)

\* C4 (amended): d.div(0) throws the divide-by-zero error before any
\* quotient is computed; for a finite divisor k < 0, d.div(k) returns a zero
\* Duration when the quotient d / k is finite and throws InvalidDuration
\* when the quotient overflows to -Infinity.
C4_Amended ==
    last.op = "div" =>
        /\ NumEq(last.arg, Zero) =>
              last.err = DivisionByZero /\ IsNaN(last.val)
        /\ (IsFinite(last.arg) /\ NumLt(last.arg, Zero)) =>
              IF IsFinite(NumDiv(last.this, last.arg))
              THEN Returned /\ isZero(last.val)
              ELSE last.err = InvalidDuration /\ IsNaN(last.val)

\* C4 witness: a division by a finite negative divisor whose quotient
\* overflows has thrown.
C4_Witness ==
    /\ last.op = "div"
    /\ IsFinite(last.arg) /\ NumLt(last.arg, Zero)
    /\ NumDiv(last.this, last.arg) = NegInfinity
    /\ last.err = InvalidDuration

NonFinite == {NaN, Infinity, NegInfinity}

\* C5 (as stated): d.mul(v) and d.div(v) throw InvalidDuration for every
\* non-finite v.
C5_Original ==
    (last.op \in {"mul", "div"} /\ last.arg \in NonFinite) =>
        last.err = InvalidDuration /\ IsNaN(last.val)

\* C5 (amended): d.mul(v) throws InvalidDuration for every non-finite v and
\* d.div(NaN) throws InvalidDuration, but d.div(+Infinity) and
\* d.div(-Infinity) do not throw and return the zero Duration.
C5_Amended ==
    /\ (last.op = "mul" /\ last.arg \in NonFinite) =>
          last.err = InvalidDuration /\ IsNaN(last.val)
    /\ (last.op = "div" /\ IsNaN(last.arg)) =>
          last.err = InvalidDuration /\ IsNaN(last.val)
    /\ (last.op = "div" /\ last.arg \in {Infinity, NegInfinity}) =>
          Returned /\ last.val = Zero

\* C5 witness: a non-zero Duration was divided by +Infinity.
C5_Witness ==
    /\ last.op = "div"
    /\ last.arg = Infinity
    /\ ~IsZero(last.this)
    /\ Returned

\* scale divides n with zero remainder: n / scale is a whole number
Divides(scale, n) == CanDiv(n, scale) /\ IsInteger(NumDiv(n, scale))

\* n / scale followed by the suffix
Shown(n, scale, suffix) == NumberToString(NumDiv(n, scale)) \o suffix

\* the string the display contract gives for an integer count n
Display(n) ==
    IF Divides(Fin(FALSE, 36, 11), n) THEN Shown(n, Fin(FALSE, 36, 11), "h")
    ELSE IF Divides(Fin(FALSE, 6, 10), n) THEN Shown(n, Fin(FALSE, 6, 10), "m")
    ELSE IF Divides(Fin(FALSE, 1, 9), n) THEN Shown(n, Fin(FALSE, 1, 9), "s")
    ELSE IF Divides(Fin(FALSE, 1, 6), n) THEN Shown(n, Fin(FALSE, 1, 6), "ms")
    ELSE IF Divides(Fin(FALSE, 1, 3), n) THEN Shown(n, Fin(FALSE, 1, 3), "µs")
    ELSE NumberToString(n) \o "ns"

\* C6: for an integer count n, toString() prints n divided by the first of
\* hour, minute, second, millisecond, microsecond that divides n, followed
\* by that unit's suffix, or n followed by "ns" when none divides; it always
\* yields a string, and the zero Duration prints as "0h".
C6_LargestDividingUnit ==
    (last.op = "toString" /\ IsInteger(last.this)) =>
        /\ last.str = Display(last.this)
        /\ last.str # ""
        /\ IsZero(last.this) => last.str = "0h"

\* C6 witness: a count that a minute divides and an hour does not was
\* printed.
C6_Witness ==
    /\ last.op = "toString"
    /\ IsInteger(last.this)
    /\ Divides(Fin(FALSE, 6, 10), last.this)
    /\ ~Divides(Fin(FALSE, 36, 11), last.this)

\* C7 (as stated): fromSecs(3600) prints "1h", fromMillis(1500) prints
\* "1.5s" and fromNanos(1) prints "1ns".
C7_Original ==
    last.op = "toString" =>
        /\ last.this = fromSecs(Lit(3600)).val => last.str = "1h"
        /\ last.this = fromMillis(Lit(1500)).val => last.str = "1.5s"
        /\ last.this = fromNanos(Lit(1)).val => last.str = "1ns"

\* C7 (amended): fromSecs(3600) prints "1h", fromMillis(1500) prints
\* "1500ms" (milliseconds are the largest unit dividing 1.5e9 ns evenly) and
\* fromNanos(1) prints "1ns".
C7_Amended ==
    last.op = "toString" =>
        /\ last.this = fromSecs(Lit(3600)).val => last.str = "1h"
        /\ last.this = fromMillis(Lit(1500)).val => last.str = "1500ms"
        /\ last.this = fromNanos(Lit(1)).val => last.str = "1ns"

\* C7 witness: the Duration kept from fromMillis(1500) was printed.
C7_Witness ==
    /\ last.op = "toString"
    /\ last.this = fromMillis(Lit(1500)).val
    /\ \E r \in Regs : regs[r] = last.this

ExactlyOne(p, q, r) ==
    (p /\ ~q /\ ~r) \/ (~p /\ q /\ ~r) \/ (~p /\ ~q /\ r)

Comparisons == {"eq", "lt", "le", "gt", "ge"}

\* C8: over the Durations the caller holds, exactly one of lt, eq, gt holds
\* for each pair, le is lt-or-eq, ge is gt-or-eq, a.lt(b) is b.gt(a) and lt
\* is transitive; each comparison call returned the corresponding relation
\* between the two nanosecond counts.
C8_TotalOrder ==
    /\ \A x \in Operands, y \in Operands :
          /\ ExactlyOne(lt(x, y), eq(x, y), gt(x, y))
          /\ le(x, y) <=> (lt(x, y) \/ eq(x, y))
          /\ ge(x, y) <=> (gt(x, y) \/ eq(x, y))
          /\ lt(x, y) <=> gt(y, x)
          /\ \A z \in Operands : (lt(x, y) /\ lt(y, z)) => lt(x, z)
    /\ last.op \in Comparisons =>
          LET rel == Compare(last.this, last.other)
          IN  last.bool =
                CASE last.op = "eq" -> rel = "equal"
                  [] last.op = "lt" -> rel = "less"
                  [] last.op = "le" -> rel # "greater"
                  [] last.op = "gt" -> rel = "greater"
                  [] last.op = "ge" -> rel # "less"

\* C8 witness: the caller holds three pairwise different counts (zero and
\* two others) and lt has returned true for two of them.
C8_Witness ==
    /\ last.op = "lt" /\ last.bool
    /\ ~IsZero(last.this)
    /\ Cardinality(Operands) = 3

\* C9: clamp throws the range error when min > max; otherwise it returns r
\* with min <= r <= max, where r is d when min <= d <= max, min when
\* d < min and max when d > max.
C9_Clamp ==
    last.op = "clamp" =>
        LET d == last.this
            min == last.other
            max == last.max
        IN  IF gt(min, max)
              THEN last.err = InvalidRange /\ IsNaN(last.val)
            ELSE /\ Returned
                 /\ le(min, last.val) /\ le(last.val, max)
                 /\ (le(min, d) /\ le(d, max)) => eq(last.val, d)
                 /\ lt(d, min) => eq(last.val, min)
                 /\ gt(d, max) => eq(last.val, max)

\* C9 witness: a Duration above a range [min, max] with min < max was
\* clamped to max.
C9_Witness ==
    /\ last.op = "clamp" /\ Returned
    /\ lt(last.other, last.max)
    /\ gt(last.this, last.max)
    /\ eq(last.val, last.max)

\* C10 (as stated): a.add(b) returns exactly a + b and throws only when the
\* sum overflows to Infinity; for a finite factor f, a.mul(f) returns zero
\* when a * f is negative (or f < 0 and a is zero), returns exactly a * f
\* when that is finite and non-negative, and throws when it overflows.
C10_Original ==
    /\ last.op = "add" =>
          LET sum == NumAdd(last.this, last.other)
          IN  IF sum = Infinity
                THEN last.err = InvalidDuration /\ IsNaN(last.val)
              ELSE Returned /\ NumEq(last.val, sum)
    /\ (last.op = "mul" /\ IsFinite(last.arg)) =>
          LET product == NumMul(last.this, last.arg)
          IN  /\ (NumLt(product, Zero)
                    \/ (NumLt(last.arg, Zero) /\ isZero(last.this))) =>
                      Returned /\ last.val = Zero
              /\ (IsFinite(product) /\ NumGe(product, Zero)) =>
                      Returned /\ NumEq(last.val, product)
              /\ ~IsFinite(product) =>
                      last.err = InvalidDuration /\ IsNaN(last.val)

\* C10 (amended): as stated, except that a.mul(f) returns zero when a * f is
\* finite and negative; a product that overflows, to +Infinity or to
\* -Infinity, throws InvalidDuration.
C10_Amended ==
    /\ last.op = "add" =>
          LET sum == NumAdd(last.this, last.other)
          IN  IF sum = Infinity
                THEN last.err = InvalidDuration /\ IsNaN(last.val)
              ELSE Returned /\ NumEq(last.val, sum)
    /\ (last.op = "mul" /\ IsFinite(last.arg)) =>
          LET product == NumMul(last.this, last.arg)
          IN  /\ ((IsFinite(product) /\ NumLt(product, Zero))
                    \/ (NumLt(last.arg, Zero) /\ isZero(last.this))) =>
                      Returned /\ last.val = Zero
              /\ (IsFinite(product) /\ NumGe(product, Zero)) =>
                      Returned /\ NumEq(last.val, product)
              /\ ~IsFinite(product) =>
                      last.err = InvalidDuration /\ IsNaN(last.val)

\* C10 witness: a multiplication by a finite negative factor whose product
\* overflows to -Infinity has thrown.
C10_Witness ==
    /\ last.op = "mul"
    /\ IsFinite(last.arg) /\ NumLt(last.arg, Zero)
    /\ NumMul(last.this, last.arg) = NegInfinity
    /\ last.err = InvalidDuration

=============================================================================
